---- MODULE Spec2Model ----
(***************************************************************************)
(* k8s-ui: the cluster session manager (internal/kube/manager.go) and the  *)
(* interactive exec bridge (internal/web/handlers_pods.go).                *)
(*                                                                         *)
(* The specifications of this module:                                      *)
(*   Spec          the Manager under concurrent HTTP request goroutines    *)
(*   ExecSpec      one exec session: handler, two pumps, the SPDY stream   *)
(*   ExecFairSpec  the same session with every goroutine scheduled fairly  *)
(*   NextSpec      terminalSizeQueue over its channel, on its own          *)
(*   SessionSpec   an exec session with switch requests served beside it   *)
(***************************************************************************)
EXTENDS Integers, Sequences, FiniteSets, TLC

\* ------------------------------------------------------------------ bounds
\* Concurrent request goroutines calling into the Manager.
NumProcs == 2

Procs == 1..NumProcs

\* Frames the browser sends during one exec session.
MaxFrames == 3

\* Output chunks the remote process produces during one exec session.
MaxChunks == 2

\* How many sizes are offered to a size queue exercised on its own.
MaxSizes == 2

\* The same two bounds for the runs checked under fairness.
MaxLiveFrames == 1
MaxLiveChunks == 1

\* Goroutines serving switch requests while an exec session is followed.
MaxOperators == 1

\* ------------------------------------------------------------ environment
\* The kubeconfig file: context name -> its namespace ("" when it sets none) and
\* whether a REST config / clientset can be built for it (a context whose cluster
\* or user entry is missing loads fine with RawConfig() and fails ClientConfig()).
KubeContexts ==
    [c \in {"dev", "prod", "stale"} |->
        CASE c = "dev"   -> [ns |-> "team-a", valid |-> TRUE]
          [] c = "prod"  -> [ns |-> "",       valid |-> TRUE]
          [] c = "stale" -> [ns |-> "old",    valid |-> FALSE]]

\* clientConfig.ClientConfig() and kubernetes.NewForConfig succeed for a context
\* the kubeconfig file defines completely.
Buildable(name) == name \in DOMAIN KubeContexts /\ KubeContexts[name].valid

\* Byte-wise order of the context names, as sort.Strings compares them.
NameOrder ==
    [c \in {"dev", "prod", "stale"} |->
        CASE c = "dev" -> 1 [] c = "prod" -> 2 [] c = "stale" -> 3]

\* Values of the "context" form field of POST /api/switch-context.
ContextInputs == {"", "dev", "prod", "stale", "ghost"}

\* Values of the "namespace" form field of POST /api/switch-namespace.
NamespaceInputs == {"", "kube-system"}

\* os.ReadFile of the service-account namespace file: an error, or its content.
Unreadable == "<read error>"
SaFileContents == {Unreadable, "", "sa-ns"}

\* The process environment NewManager runs in.
Environments ==
    { e \in [inCluster : BOOLEAN, saFile : SaFileContents, podNamespace : {"", "ops"},
             kubeconfig : BOOLEAN, currentContext : {"dev", "prod", "stale"}] :
        IF e.inCluster
        THEN e.kubeconfig /\ e.currentContext = "dev"
        ELSE e.saFile = Unreadable /\ (~e.kubeconfig => e.currentContext = "dev") }

\* --------------------------------------------------------------- variables
VARIABLES
    env,        \* the environment of the process (fixed at start)
    boot,       \* "boot" | "running" | "fatal": main's progress
    isLocal,    \* Manager.isLocal
    clientset,  \* Manager.clientset: the context its REST config was built from
    namespace,  \* Manager.namespace
    rawConfig,  \* Manager.rawConfig: [Contexts, CurrentContext]
    mu,         \* Manager.mu: 0 when free, else the goroutine holding it exclusively
    pc,         \* per request goroutine: where it is
    loc         \* per request goroutine: arguments, results and snapshots

mgrVars == <<env, boot, isLocal, clientset, namespace, rawConfig, mu, pc, loc>>

\* One exec request (handlePodExecWS) and everything it creates.
VARIABLES
    quota,      \* how much the browser and the remote process do in this run
    req,        \* the request: pod name from the path, "container" query value, headers
    hpc,        \* where the handler goroutine is
    httpStatus, \* status of the HTTP response (0: none written yet)
    ws,         \* conn: "none" (never upgraded) | "open" | "closed" (conn.Close() ran)
    peerOpen,   \* whether the browser still holds its end of the socket open
    sent,       \* number of frames the browser has sent
    toServer,   \* frames sent by the browser and not yet returned by ReadMessage
    toClient,   \* frames written to the socket, in order
    session,    \* what the exec request was built from (client, namespace, pod, container)
    sizeChan,   \* the buffered channel of capacity 1
    done,       \* whether the done channel is closed
    stdinBuf,   \* the data of a stdinWriter.Write waiting for its reader
    stdinRClosed,  \* stdinReader.Close() ran
    stdinWClosed,  \* stdinWriter.Close() ran
    stdoutBuf,  \* the data of a stdoutWriter.Write waiting for its reader
    stdoutWClosed, \* stdoutWriter.Close() ran
    inpc,       \* where the inbound pump goroutine is
    outpc,      \* where the outbound pump goroutine is
    outMsg,     \* the chunk the outbound pump has read and not yet written
    stream,     \* StreamWithContext: "none" | "dialing" | "running" | "returned"
    streamErr,  \* the error StreamWithContext returned ("" for nil)
    produced,   \* number of output chunks the remote process has produced
    remoteIn,   \* the data the remote process has received on its stdin, in order
    applied,    \* the sizes terminalSizeQueue.Next has returned to the transport
    offers,     \* for each resize frame the inbound pump handled: the frame and how
                \* many sizes the transport had taken from Next by then
    wsRace,     \* two WriteJSON calls on conn overlap or have overlapped with one
                \* of them still running (the socket allows one writer at a time)
    stdinWritten,   \* the data of every stdinWriter.Write call made, in order
    sizeChanClosed, \* whether sizeChan is closed
    canceled,   \* whether the request's context (r.Context()) is done
    resizing    \* whether the transport has started its resize loop, which calls
                \* TerminalSizeQueue.Next until it returns nil

execVars ==
    <<quota, req, hpc, httpStatus, ws, peerOpen, sent, toServer, toClient, session, sizeChan,
      done, stdinBuf, stdinRClosed, stdinWClosed, stdoutBuf, stdoutWClosed, inpc, outpc,
      outMsg, stream, streamErr, produced, remoteIn, applied, offers, wsRace, stdinWritten,
      sizeChanClosed, canceled, resizing>>

NilClient == "<nil>"
InClusterClient == "<in-cluster>"
NoContexts == [c \in {} |-> [ns |-> "", valid |-> FALSE]]

\* What a goroutine holds between calls.
Blank ==
    [arg |-> "", err |-> "", pre |-> <<>>, rc |-> NilClient, nsAtClient |-> "", ret |-> <<>>]

\* The three fields a SwitchContext is meant to replace together.
Session == [clientset |-> clientset, namespace |-> namespace, rawConfig |-> rawConfig]

\* ------------------------------------------------------------- NewManager
\* manager.go:41-47: the namespace in in-cluster mode.
InClusterNamespaceIgnorePreferred(initialNamespace, file) ==
    IF file # Unreadable THEN file ELSE "default"

InClusterNamespace(initialNamespace, file) ==
    IF initialNamespace # "" THEN initialNamespace
    ELSE IF file # Unreadable THEN file
    ELSE "default"

\* clientcmd's ClientConfig.Namespace() result for a context, with the caller's
\* fallback (manager.go:84-89 and 182-187).
ContextNamespace(contexts, name) ==
    IF contexts[name].ns # "" THEN contexts[name].ns ELSE "default"

\* manager.go:83-90: the namespace in local mode.
LocalNamespace(initialNamespace, contexts, current) ==
    IF initialNamespace # "" THEN initialNamespace
    ELSE ContextNamespace(contexts, current)

\* main.go:23-34 with manager.go:30-105.
NewManager ==
    /\ boot = "boot"
    /\ IF env.inCluster
       THEN /\ isLocal' = FALSE
            /\ namespace' = InClusterNamespace(env.podNamespace, env.saFile)
            /\ clientset' = InClusterClient
            /\ boot' = "running"
            /\ UNCHANGED rawConfig
       ELSE IF ~env.kubeconfig \/ ~Buildable(env.currentContext)
       THEN \* NewManager returns (nil, err); main calls log.Fatalf
            /\ boot' = "fatal"
            /\ UNCHANGED <<isLocal, namespace, clientset, rawConfig>>
       ELSE /\ isLocal' = TRUE
            /\ rawConfig' = [Contexts |-> KubeContexts, CurrentContext |-> env.currentContext]
            /\ namespace' = LocalNamespace(env.podNamespace, KubeContexts, env.currentContext)
            /\ clientset' = env.currentContext
            /\ boot' = "running"
    /\ UNCHANGED <<execVars, env, mu, pc, loc>>

\* ------------------------------------------------------------ the RWMutex
\* mu.RLock() returns only while no writer holds mu.
CanRLock == mu = 0

\* mu.Lock() returns only while nobody holds mu. Every read section below is a
\* single step, so no reader is ever inside one when a writer asks.
CanLockNoWait == TRUE

CanLock == mu = 0

Idle(p) == boot = "running" /\ pc[p] = "idle"

\* --------------------------------------------------- Client() / Namespace()
\* A request handler: s.manager.Client() ... (s.manager.Namespace()), two calls
\* (handlers_pods.go:440-443, handlers_workloads.go and the other list handlers).
HandlerClient(p) ==
    /\ Idle(p)
    /\ CanRLock
    /\ pc' = [pc EXCEPT ![p] = "h_ns"]
    /\ loc' = [loc EXCEPT ![p].rc = clientset, ![p].nsAtClient = namespace]
    /\ UNCHANGED <<execVars, env, boot, isLocal, clientset, namespace, rawConfig, mu>>

HandlerNamespace(p) ==
    /\ pc[p] = "h_ns"
    /\ CanRLock
    /\ pc' = [pc EXCEPT ![p] = "idle"]
    /\ loc' = [loc EXCEPT ![p] = Blank]
    /\ UNCHANGED <<execVars, env, boot, isLocal, clientset, namespace, rawConfig, mu>>

\* ---------------------------------------------------------------- Contexts()
StrLess(a, b) == NameOrder[a] < NameOrder[b]

\* Insert x into the ascending sequence s.
RECURSIVE Insert(_, _)
Insert(x, s) ==
    IF s = <<>> THEN <<x>>
    ELSE IF StrLess(s[1], x) THEN <<s[1]>> \o Insert(x, Tail(s))
    ELSE <<x>> \o s

\* sort.Strings (manager.go:141).
RECURSIVE SortStrings(_)
SortStrings(s) ==
    IF s = <<>> THEN <<>> ELSE Insert(s[1], SortStrings(Tail(s)))

\* The orders in which ranging over a Go map may yield its keys.
KeyOrders(m) ==
    { s \in [1..Cardinality(DOMAIN m) -> DOMAIN m] :
        \A i, j \in DOMAIN s : i # j => s[i] # s[j] }

\* manager.go:129-144.
Contexts(p) ==
    /\ Idle(p)
    /\ CanRLock
    /\ pc' = [pc EXCEPT ![p] = "c_done"]
    /\ IF ~isLocal
       THEN loc' = [loc EXCEPT ![p].ret = [list |-> <<>>, cur |-> "", active |-> clientset]]
       ELSE \E order \in KeyOrders(rawConfig.Contexts) :
                loc' = [loc EXCEPT ![p].ret = [list |-> SortStrings(order),
                                               cur |-> rawConfig.CurrentContext,
                                               active |-> clientset]]
    /\ UNCHANGED <<execVars, env, boot, isLocal, clientset, namespace, rawConfig, mu>>

\* ------------------------------------------------------------- SetNamespace
\* server.go:66-70.
NamespaceRequired(ns) == ns = ""

\* server.go:60-72: handleSwitchNamespace up to the call of SetNamespace.
HandleSwitchNamespace(p, ns) ==
    /\ Idle(p)
    /\ IF NamespaceRequired(ns)
       THEN UNCHANGED <<pc, loc>>   \* 400 "Namespace is required"
       ELSE /\ pc' = [pc EXCEPT ![p] = "sn_lock"]
            /\ loc' = [loc EXCEPT ![p].arg = ns]
    /\ UNCHANGED <<execVars, env, boot, isLocal, clientset, namespace, rawConfig, mu>>

SetNamespaceAlsoClient(p) ==
    /\ pc[p] = "sn_lock"
    /\ CanLock
    /\ mu' = p
    /\ namespace' = loc[p].arg
    /\ clientset' = NilClient
    /\ pc' = [pc EXCEPT ![p] = "sn_ret"]
    /\ loc' = [loc EXCEPT ![p].pre = Session]
    /\ UNCHANGED <<execVars, env, boot, isLocal, rawConfig>>

\* manager.go:119-122: Lock, then the assignment; the deferred Unlock is Unlock(p).
SetNamespace(p) ==
    /\ pc[p] = "sn_lock"
    /\ CanLock
    /\ mu' = p
    /\ namespace' = loc[p].arg
    /\ pc' = [pc EXCEPT ![p] = "sn_ret"]
    /\ loc' = [loc EXCEPT ![p].pre = Session]
    /\ UNCHANGED <<execVars, env, boot, isLocal, clientset, rawConfig>>

\* ------------------------------------------------------------ SwitchContext
\* server.go:38-50: handleSwitchContext up to the call of SwitchContext.
HandleSwitchContext(p, ctx) ==
    /\ Idle(p)
    /\ IF ctx = ""
       THEN UNCHANGED <<pc, loc>>   \* 400 "Context is required"
       ELSE /\ pc' = [pc EXCEPT ![p] = "sw_lock"]
            /\ loc' = [loc EXCEPT ![p].arg = ctx]
    /\ UNCHANGED <<execVars, env, boot, isLocal, clientset, namespace, rawConfig, mu>>

\* SwitchContext with the namespace fallback written before the checks.
SwitchEnterEarlyWrite(p) ==
    /\ pc[p] = "sw_lock"
    /\ CanLock
    /\ mu' = p
    /\ namespace' = "default"
    /\ IF ~isLocal \/ loc[p].arg \notin DOMAIN rawConfig.Contexts
       THEN /\ pc' = [pc EXCEPT ![p] = "sw_ret"]
            /\ loc' = [loc EXCEPT ![p].pre = Session, ![p].err = "context not found"]
            /\ UNCHANGED rawConfig
       ELSE /\ pc' = [pc EXCEPT ![p] = "sw_build"]
            /\ loc' = [loc EXCEPT ![p].pre = Session]
            /\ rawConfig' = [rawConfig EXCEPT !.CurrentContext = loc[p].arg]
    /\ UNCHANGED <<execVars, env, boot, isLocal, clientset>>

\* manager.go:147-159: Lock, the two checks, the write of CurrentContext.
SwitchEnter(p) ==
    /\ pc[p] = "sw_lock"
    /\ CanLock
    /\ mu' = p
    /\ IF ~isLocal
       THEN /\ pc' = [pc EXCEPT ![p] = "sw_ret"]
            /\ loc' = [loc EXCEPT ![p].pre = Session,
                                  ![p].err = "cannot switch context in in-cluster mode"]
            /\ UNCHANGED rawConfig
       ELSE IF loc[p].arg \notin DOMAIN rawConfig.Contexts
       THEN /\ pc' = [pc EXCEPT ![p] = "sw_ret"]
            /\ loc' = [loc EXCEPT ![p].pre = Session, ![p].err = "context not found"]
            /\ UNCHANGED rawConfig
       ELSE /\ pc' = [pc EXCEPT ![p] = "sw_build"]
            /\ loc' = [loc EXCEPT ![p].pre = Session]
            /\ rawConfig' = [rawConfig EXCEPT !.CurrentContext = loc[p].arg]
    /\ UNCHANGED <<execVars, env, boot, isLocal, clientset, namespace>>

\* manager.go:161-176: the client config with the override, the REST config and
\* the clientset; either may fail, and the function returns its error.
SwitchBuild(p) ==
    /\ pc[p] = "sw_build"
    /\ IF Buildable(loc[p].arg)
       THEN /\ pc' = [pc EXCEPT ![p] = "sw_client"]
            /\ UNCHANGED loc
       ELSE /\ pc' = [pc EXCEPT ![p] = "sw_ret"]
            /\ loc' = [loc EXCEPT ![p].err = "failed to create rest config"]
    /\ UNCHANGED <<execVars, env, boot, isLocal, clientset, namespace, rawConfig, mu>>

\* SwitchContext that also points the exec sessions already open at the new client.
SwitchClientRebinds(p) ==
    /\ pc[p] = "sw_client"
    /\ clientset' = loc[p].arg
    /\ pc' = [pc EXCEPT ![p] = "sw_ns"]
    /\ session' = IF session.client = NilClient THEN session
                  ELSE [session EXCEPT !.client = loc[p].arg]
    /\ UNCHANGED <<quota, req, hpc, httpStatus, ws, peerOpen, sent, toServer, toClient,
                   sizeChan, done, stdinBuf, stdinRClosed, stdinWClosed, stdoutBuf,
                   stdoutWClosed, inpc, outpc, outMsg, stream, streamErr, produced, remoteIn,
                   applied, offers, wsRace, stdinWritten, sizeChanClosed, canceled, resizing>>
    /\ UNCHANGED <<env, boot, isLocal, namespace, rawConfig, mu, loc>>

\* manager.go:178.
SwitchClient(p) ==
    /\ pc[p] = "sw_client"
    /\ clientset' = loc[p].arg
    /\ pc' = [pc EXCEPT ![p] = "sw_ns"]
    /\ UNCHANGED <<execVars, env, boot, isLocal, namespace, rawConfig, mu, loc>>

\* SwitchContext that keeps a namespace already chosen.
SwitchNamespaceKeepChosen(p) ==
    /\ pc[p] = "sw_ns"
    /\ namespace' = IF namespace # "" THEN namespace
                    ELSE ContextNamespace(KubeContexts, loc[p].arg)
    /\ pc' = [pc EXCEPT ![p] = "sw_ret"]
    /\ UNCHANGED <<execVars, env, boot, isLocal, clientset, rawConfig, mu, loc>>

\* manager.go:182-189.
SwitchNamespace(p) ==
    /\ pc[p] = "sw_ns"
    /\ namespace' = ContextNamespace(KubeContexts, loc[p].arg)
    /\ pc' = [pc EXCEPT ![p] = "sw_ret"]
    /\ UNCHANGED <<execVars, env, boot, isLocal, clientset, rawConfig, mu, loc>>

\* The deferred m.mu.Unlock() of SetNamespace and SwitchContext (manager.go:121, 148).
Unlock(p) ==
    /\ pc[p] \in {"sn_ret", "sw_ret"}
    /\ mu' = 0
    /\ pc' = [pc EXCEPT ![p] = "idle"]
    /\ loc' = [loc EXCEPT ![p] = Blank]
    /\ UNCHANGED <<execVars, env, boot, isLocal, clientset, namespace, rawConfig>>

\* The request is answered and its goroutine ends; another may start.
Return(p) ==
    /\ pc[p] = "c_done"
    /\ pc' = [pc EXCEPT ![p] = "idle"]
    /\ loc' = [loc EXCEPT ![p] = Blank]
    /\ UNCHANGED <<execVars, env, boot, isLocal, clientset, namespace, rawConfig, mu>>


\* =================================================================== exec
\* ----------------------------------------------------------------- frames
\* A frame on the socket is a JSON text; `valid` says whether json.Unmarshal into
\* TerminalMessage accepts it. `id` is the frame's position in what the browser
\* sent; an input frame carries it as its data so that data can be told apart.
InputFrame(id) ==
    [valid |-> TRUE, type |-> "input", data |-> id, cols |-> 0, rows |-> 0, id |-> id]

ResizeFrame(id) ==
    [valid |-> TRUE, type |-> "resize", data |-> 0, cols |-> 80, rows |-> 24, id |-> id]

\* A resize frame without "rows": json.Unmarshal leaves Rows at its zero value.
ResizeFrameNoRows(id) ==
    [valid |-> TRUE, type |-> "resize", data |-> 0, cols |-> 80, rows |-> 0, id |-> id]

BogusFrame(id) ==
    [valid |-> TRUE, type |-> "bogus", data |-> 0, cols |-> 0, rows |-> 0, id |-> id]

GarbageFrame(id) ==
    [valid |-> FALSE, type |-> "", data |-> 0, cols |-> 0, rows |-> 0, id |-> id]

\* What the browser may send as its id-th frame; the resize without rows is tried
\* as the opening frame.
ClientFrames(id) ==
    {InputFrame(id), ResizeFrame(id), BogusFrame(id), GarbageFrame(id)}
        \cup (IF id = 1 THEN {ResizeFrameNoRows(id)} ELSE {})

\* TerminalMessage{Type: "output", Data: ...} as the handler and the outbound pump
\* write it: a chunk of remote output, the final notice, or a set-up error.
OutputFrame(kind, chunk, text) ==
    [type |-> "output", kind |-> kind, data |-> chunk, text |-> text]

\* handlers_pods.go:464-467.
SizeChanCap == 1
InitialWidth == 120
InitialHeight == 30
InitialSize == [Width |-> InitialWidth, Height |-> InitialHeight, id |-> 0]

\* The runs explored: a talkative browser with a silent remote process, a
\* talkative remote process with a browser that sends one frame, or a short
\* session whose request context may be canceled.
Scenarios ==
    {[frames |-> MaxFrames, chunks |-> 0, cancel |-> FALSE],
     [frames |-> 1, chunks |-> MaxChunks, cancel |-> FALSE],
     [frames |-> 1, chunks |-> 1, cancel |-> TRUE]}

\* Requests that reach handlePodExecWS through the "/pods/" route (routes.go:39-41).
Requests ==
    [path : {<<"", "pods", "web-1", "exec", "ws">>}, container : {"", "app"},
     websocket : BOOLEAN]

\* ---------------------------------------------------------------- handler
ContainerRequiredSkipped(container) == FALSE

\* handlers_pods.go:418-422.
ContainerRequired(container) == container = ""

\* handlers_pods.go:411-422: the path and the container checks.
HandleExecStart ==
    /\ hpc = "start"
    /\ IF Len(req.path) < 3 \/ ContainerRequired(req.container)
       THEN httpStatus' = 400 /\ hpc' = "returned"
       ELSE httpStatus' = 0 /\ hpc' = "upgrade"
    /\ UNCHANGED <<mgrVars, quota, resizing, canceled, wsRace, stdinWritten, sizeChanClosed,
                   req, ws, peerOpen, sent, toServer, toClient, session, sizeChan, done,
                   stdinBuf, stdinRClosed, stdinWClosed, stdoutBuf, stdoutWClosed, inpc, outpc,
                   outMsg, stream, streamErr, produced, remoteIn, applied, offers>>

\* handlers_pods.go:425-430: upgrader.Upgrade; it answers a request that is no
\* WebSocket handshake itself, with 400.
Upgrade ==
    /\ hpc = "upgrade"
    /\ IF req.websocket
       THEN /\ ws' = "open"
            /\ peerOpen' = TRUE
            /\ httpStatus' = 101
            /\ hpc' = "setup"
       ELSE /\ httpStatus' = 400
            /\ hpc' = "returned"
            /\ UNCHANGED <<ws, peerOpen>>
    /\ UNCHANGED <<mgrVars, quota, resizing, canceled, wsRace, stdinWritten, sizeChanClosed,
                   req, sent, toServer, toClient, session, sizeChan, done, stdinBuf,
                   stdinRClosed, stdinWClosed, stdoutBuf, stdoutWClosed, inpc, outpc, outMsg,
                   stream, streamErr, produced, remoteIn, applied, offers>>

\* conn.WriteJSON: the frame reaches the browser while it holds the socket open.
Written(frame) ==
    IF ws = "open" /\ peerOpen THEN Append(toClient, frame) ELSE toClient

\* handlers_pods.go:432-440: the REST config and the call of Client() the exec
\* request starts from. On an error one frame is written and the deferred
\* conn.Close() runs.
Setup ==
    /\ hpc = "setup"
    /\ \E outcome \in {"ok", "Error getting REST config"} :
         IF outcome = "ok"
         THEN /\ CanRLock
              /\ session' = [session EXCEPT !.client = clientset]
              /\ hpc' = "request"
              /\ UNCHANGED <<toClient, ws>>
         ELSE /\ toClient' = Written(OutputFrame("setup", 0, outcome))
              /\ ws' = "closed"
              /\ hpc' = "returned"
              /\ UNCHANGED session
    /\ UNCHANGED <<mgrVars, quota, resizing, canceled, wsRace, stdinWritten, sizeChanClosed,
                   req, httpStatus, peerOpen, sent, toServer, sizeChan, done, stdinBuf,
                   stdinRClosed, stdinWClosed, stdoutBuf, stdoutWClosed, inpc, outpc, outMsg,
                   stream, streamErr, produced, remoteIn, applied, offers>>

\* handlers_pods.go:441-458: the rest of the exec request, with the pod, the call
\* of Namespace() and the container, and the SPDY executor made for its URL.
SetupRequest ==
    /\ hpc = "request"
    /\ CanRLock
    /\ \E outcome \in {"ok", "Error creating executor"} :
         IF outcome = "ok"
         THEN /\ session' = [session EXCEPT !.namespace = namespace, !.pod = req.path[3],
                                            !.container = req.container]
              /\ hpc' = "spawn"
              /\ UNCHANGED <<toClient, ws>>
         ELSE /\ toClient' = Written(OutputFrame("setup", 0, outcome))
              /\ ws' = "closed"
              /\ hpc' = "returned"
              /\ UNCHANGED session
    /\ UNCHANGED <<mgrVars, quota, resizing, canceled, wsRace, stdinWritten, sizeChanClosed,
                   req, httpStatus, peerOpen, sent, toServer, sizeChan, done, stdinBuf,
                   stdinRClosed, stdinWClosed, stdoutBuf, stdoutWClosed, inpc, outpc, outMsg,
                   stream, streamErr, produced, remoteIn, applied, offers>>

\* Spawn without the initial size put into sizeChan.
SpawnNoInitialSize ==
    /\ hpc = "spawn"
    /\ sizeChan' = <<>>
    /\ inpc' = "select"
    /\ outpc' = "read"
    /\ stream' = "dialing"
    /\ hpc' = "stream"
    /\ UNCHANGED <<mgrVars, quota, resizing, canceled, wsRace, stdinWritten, sizeChanClosed,
                   req, httpStatus, ws, peerOpen, sent, toServer, toClient, session, done,
                   stdinBuf, stdinRClosed, stdinWClosed, stdoutBuf, stdoutWClosed, outMsg,
                   streamErr, produced, remoteIn, applied, offers>>

\* handlers_pods.go:460-531: the pipes, sizeChan with the initial size, done, the
\* two pump goroutines, and the call of StreamWithContext.
Spawn ==
    /\ hpc = "spawn"
    /\ sizeChan' = <<InitialSize>>
    /\ inpc' = "select"
    /\ outpc' = "read"
    /\ stream' = "dialing"
    /\ hpc' = "stream"
    /\ UNCHANGED <<mgrVars, quota, resizing, canceled, wsRace, stdinWritten, sizeChanClosed,
                   req, httpStatus, ws, peerOpen, sent, toServer, toClient, session, done,
                   stdinBuf, stdinRClosed, stdinWClosed, stdoutBuf, stdoutWClosed, outMsg,
                   streamErr, produced, remoteIn, applied, offers>>

\* ----------------------------------------------------------- inbound pump
\* InSelect without the default branch: the select waits for done.
InSelectBlocking ==
    /\ inpc = "select"
    /\ done
    /\ inpc' = "exited" /\ stdinWClosed' = TRUE
    /\ UNCHANGED <<mgrVars, quota, resizing, canceled, wsRace, stdinWritten, sizeChanClosed,
                   req, hpc, httpStatus, ws, peerOpen, sent, toServer, toClient, session,
                   sizeChan, done, stdinBuf, stdinRClosed, stdoutBuf, stdoutWClosed, outpc,
                   outMsg, stream, streamErr, produced, remoteIn, applied, offers>>

\* handlers_pods.go:477-479: the select on done, with its default branch.
InSelect ==
    /\ inpc = "select"
    /\ IF done
       THEN inpc' = "exited" /\ stdinWClosed' = TRUE
       ELSE inpc' = "read" /\ UNCHANGED stdinWClosed
    /\ UNCHANGED <<mgrVars, quota, resizing, canceled, wsRace, stdinWritten, sizeChanClosed,
                   req, hpc, httpStatus, ws, peerOpen, sent, toServer, toClient, session,
                   sizeChan, done, stdinBuf, stdinRClosed, stdoutBuf, stdoutWClosed, outpc,
                   outMsg, stream, streamErr, produced, remoteIn, applied, offers>>

OfferSizeLatestWins(ch, size) == <<size>>

\* The send on sizeChan as if the channel had room for every size.
OfferSizeUnbounded(ch, size) == Append(ch, size)

\* handlers_pods.go:495-499: the send on sizeChan inside select with a default.
OfferSize(ch, size) ==
    IF Len(ch) < SizeChanCap THEN Append(ch, size) ELSE ch

\* InRead with the write to stdin not waited for: the data of a write still
\* pending is replaced.
InReadNoWait ==
    /\ inpc = "read"
    /\ ws = "open"
    /\ toServer # <<>>
    /\ LET msg == Head(toServer) IN
       /\ toServer' = Tail(toServer)
       /\ IF ~msg.valid
          THEN inpc' = "select" /\ UNCHANGED <<stdinBuf, sizeChan, offers, stdinWritten>>
          ELSE IF msg.type = "input"
          THEN /\ inpc' = "select"
               /\ IF stdinRClosed THEN UNCHANGED stdinBuf ELSE stdinBuf' = <<msg.data>>
               /\ stdinWritten' = Append(stdinWritten, msg.data)
               /\ UNCHANGED <<sizeChan, offers>>
          ELSE IF msg.type = "resize"
          THEN /\ sizeChan' = OfferSize(sizeChan,
                                 [Width |-> msg.cols, Height |-> msg.rows, id |-> msg.id])
               /\ offers' = Append(offers, [frame |-> msg, cb |-> Len(applied)])
               /\ inpc' = "select"
               /\ UNCHANGED <<stdinBuf, stdinWritten>>
          ELSE inpc' = "select" /\ UNCHANGED <<stdinBuf, sizeChan, offers, stdinWritten>>
    /\ UNCHANGED <<mgrVars, quota, resizing, canceled, wsRace, sizeChanClosed, req, hpc,
                   httpStatus, ws, peerOpen, sent, toClient, session, done, stdinRClosed,
                   stdinWClosed, stdoutBuf, stdoutWClosed, outpc, outMsg, stream, streamErr,
                   produced, remoteIn, applied>>

\* InRead with a default case in the switch that treats a frame of any other type
\* as input.
InReadDefaultWrites ==
    /\ inpc = "read"
    /\ ws = "open"
    /\ toServer # <<>>
    /\ LET msg == Head(toServer) IN
       /\ toServer' = Tail(toServer)
       /\ IF ~msg.valid
          THEN inpc' = "select" /\ UNCHANGED <<stdinBuf, sizeChan, offers, stdinWritten>>
          ELSE IF msg.type = "input"
          THEN /\ IF stdinRClosed
                  THEN inpc' = "select" /\ UNCHANGED stdinBuf
                  ELSE inpc' = "write" /\ stdinBuf' = <<msg.data>>
               /\ stdinWritten' = Append(stdinWritten, msg.data)
               /\ UNCHANGED <<sizeChan, offers>>
          ELSE IF msg.type = "resize"
          THEN /\ sizeChan' = OfferSize(sizeChan,
                                 [Width |-> msg.cols, Height |-> msg.rows, id |-> msg.id])
               /\ offers' = Append(offers, [frame |-> msg, cb |-> Len(applied)])
               /\ inpc' = "select"
               /\ UNCHANGED <<stdinBuf, stdinWritten>>
          ELSE /\ IF stdinRClosed
                  THEN inpc' = "select" /\ UNCHANGED stdinBuf
                  ELSE inpc' = "write" /\ stdinBuf' = <<msg.data>>
               /\ stdinWritten' = Append(stdinWritten, msg.data)
               /\ UNCHANGED <<sizeChan, offers>>
    /\ UNCHANGED <<mgrVars, quota, resizing, canceled, wsRace, sizeChanClosed, req, hpc,
                   httpStatus, ws, peerOpen, sent, toClient, session, done, stdinRClosed,
                   stdinWClosed, stdoutBuf, stdoutWClosed, outpc, outMsg, stream, streamErr,
                   produced, remoteIn, applied>>

\* handlers_pods.go:481-500: ReadMessage returns a frame; decode and dispatch.
InRead ==
    /\ inpc = "read"
    /\ ws = "open"
    /\ toServer # <<>>
    /\ LET msg == Head(toServer) IN
       /\ toServer' = Tail(toServer)
       /\ IF ~msg.valid
          THEN inpc' = "select" /\ UNCHANGED <<stdinBuf, sizeChan, offers, stdinWritten>>
          ELSE IF msg.type = "input"
          THEN /\ IF stdinRClosed
                  THEN inpc' = "select" /\ UNCHANGED stdinBuf
                  ELSE inpc' = "write" /\ stdinBuf' = <<msg.data>>
               /\ stdinWritten' = Append(stdinWritten, msg.data)
               /\ UNCHANGED <<sizeChan, offers>>
          ELSE IF msg.type = "resize"
          THEN /\ sizeChan' = OfferSize(sizeChan,
                                 [Width |-> msg.cols, Height |-> msg.rows, id |-> msg.id])
               /\ offers' = Append(offers, [frame |-> msg, cb |-> Len(applied)])
               /\ inpc' = "select"
               /\ UNCHANGED <<stdinBuf, stdinWritten>>
          ELSE inpc' = "select" /\ UNCHANGED <<stdinBuf, sizeChan, offers, stdinWritten>>
    /\ UNCHANGED <<mgrVars, quota, resizing, canceled, wsRace, sizeChanClosed, req, hpc,
                   httpStatus, ws, peerOpen, sent, toClient, session, done, stdinRClosed,
                   stdinWClosed, stdoutBuf, stdoutWClosed, outpc, outMsg, stream, streamErr,
                   produced, remoteIn, applied>>

\* InReadError with the deferred stdinWriter.Close() left out.
InReadErrorNoClose ==
    /\ inpc = "read"
    /\ (toServer = <<>> /\ ~peerOpen) \/ ws = "closed"
    /\ inpc' = "exited"
    /\ UNCHANGED <<mgrVars, quota, resizing, canceled, wsRace, stdinWritten, sizeChanClosed,
                   req, hpc, httpStatus, ws, peerOpen, sent, toServer, toClient, session,
                   sizeChan, done, stdinBuf, stdinRClosed, stdinWClosed, stdoutBuf,
                   stdoutWClosed, outpc, outMsg, stream, streamErr, produced, remoteIn,
                   applied, offers>>

\* handlers_pods.go:481-484 with 474-475: ReadMessage fails once the browser has
\* gone and nothing it sent is left, or once conn has been closed on this side; the
\* deferred stdinWriter.Close() and wg.Done().
InReadError ==
    /\ inpc = "read"
    /\ (toServer = <<>> /\ ~peerOpen) \/ ws = "closed"
    /\ inpc' = "exited"
    /\ stdinWClosed' = TRUE
    /\ UNCHANGED <<mgrVars, quota, resizing, canceled, wsRace, stdinWritten, sizeChanClosed,
                   req, hpc, httpStatus, ws, peerOpen, sent, toServer, toClient, session,
                   sizeChan, done, stdinBuf, stdinRClosed, stdoutBuf, stdoutWClosed, outpc,
                   outMsg, stream, streamErr, produced, remoteIn, applied, offers>>

\* handlers_pods.go:493: stdinWriter.Write returns, its data taken by the reader
\* or given up because the read side was closed.
InWriteReturn ==
    /\ inpc = "write"
    /\ stdinBuf = <<>>
    /\ inpc' = "select"
    /\ UNCHANGED <<mgrVars, quota, resizing, canceled, wsRace, stdinWritten, sizeChanClosed,
                   req, hpc, httpStatus, ws, peerOpen, sent, toServer, toClient, session,
                   sizeChan, done, stdinBuf, stdinRClosed, stdinWClosed, stdoutBuf,
                   stdoutWClosed, outpc, outMsg, stream, streamErr, produced, remoteIn,
                   applied, offers>>

\* ---------------------------------------------------------- outbound pump
\* handlers_pods.go:510-514: stdoutReader.Read returns a chunk.
OutRead ==
    /\ outpc = "read"
    /\ stdoutBuf # <<>>
    /\ outMsg' = stdoutBuf[1]
    /\ stdoutBuf' = <<>>
    /\ outpc' = "write"
    /\ UNCHANGED <<mgrVars, quota, resizing, canceled, wsRace, stdinWritten, sizeChanClosed,
                   req, hpc, httpStatus, ws, peerOpen, sent, toServer, toClient, session,
                   sizeChan, done, stdinBuf, stdinRClosed, stdinWClosed, stdoutWClosed, inpc,
                   stream, streamErr, produced, remoteIn, applied, offers>>

\* handlers_pods.go:510-513 with 507: Read returns io.EOF after stdoutWriter.Close().
OutReadEOF ==
    /\ outpc = "read"
    /\ stdoutBuf = <<>>
    /\ stdoutWClosed
    /\ outpc' = "exited"
    /\ UNCHANGED <<mgrVars, quota, resizing, canceled, wsRace, stdinWritten, sizeChanClosed,
                   req, hpc, httpStatus, ws, peerOpen, sent, toServer, toClient, session,
                   sizeChan, done, stdinBuf, stdinRClosed, stdinWClosed, stdoutBuf,
                   stdoutWClosed, inpc, outMsg, stream, streamErr, produced, remoteIn, applied,
                   offers>>

\* What two overlapping WriteJSON calls on one conn can come to: both frames
\* written, the frame damaged, or the socket's "concurrent write" panic.
WriteOutcomes == IF wsRace THEN {"ok", "garbled", "panic"} ELSE {"ok"}

\* handlers_pods.go:515-516: the outbound pump enters conn.WriteJSON.
OutWriteBegin ==
    /\ outpc = "write"
    /\ outpc' = "writing"
    /\ wsRace' = (wsRace \/ hpc = "t_writing")
    /\ UNCHANGED <<mgrVars, quota, resizing, canceled, stdinWritten, sizeChanClosed, req, hpc,
                   httpStatus, ws, peerOpen, sent, toServer, toClient, session, sizeChan, done,
                   stdinBuf, stdinRClosed, stdinWClosed, stdoutBuf, stdoutWClosed, inpc,
                   outMsg, stream, streamErr, produced, remoteIn, applied, offers>>

\* handlers_pods.go:516-520: WriteJSON of the chunk returns; a write to a socket
\* the browser has left may still succeed locally or fail. A panic in this
\* goroutine is not recovered: the process ends.
OutWriteEnd ==
    /\ outpc = "writing"
    /\ \E outcome \in WriteOutcomes :
         IF outcome = "panic"
         THEN /\ outpc' = "crashed" /\ inpc' = "crashed" /\ hpc' = "crashed"
              /\ stream' = "crashed"
              /\ ws' = "closed"
              /\ wsRace' = FALSE
              /\ UNCHANGED toClient
         ELSE /\ toClient' = Written(IF outcome = "ok" THEN OutputFrame("chunk", outMsg, "")
                                     ELSE OutputFrame("garbled", 0, ""))
              /\ \/ outpc' = "read"
                 \/ ~(ws = "open" /\ peerOpen) /\ outpc' = "exited"
              /\ wsRace' = (wsRace /\ hpc = "t_writing")
              /\ UNCHANGED <<inpc, hpc, stream, ws>>
    /\ outMsg' = 0
    /\ UNCHANGED <<mgrVars, quota, resizing, canceled, stdinWritten, sizeChanClosed, req,
                   httpStatus, peerOpen, sent, toServer, session, sizeChan, done, stdinBuf,
                   stdinRClosed, stdinWClosed, stdoutBuf, stdoutWClosed, streamErr, produced,
                   remoteIn, applied, offers>>

\* ------------------------------------------------------- the SPDY transport
\* StreamWithContext has connected to the API server and started its copiers.
TransportConnect ==
    /\ stream = "dialing"
    /\ stream' = "running"
    /\ resizing' = TRUE
    /\ UNCHANGED <<mgrVars, quota, canceled, wsRace, stdinWritten, sizeChanClosed,
                   req, hpc, httpStatus, ws, peerOpen, sent, toServer, toClient, session,
                   sizeChan, done, stdinBuf, stdinRClosed, stdinWClosed, stdoutBuf,
                   stdoutWClosed, inpc, outpc, outMsg, streamErr, produced, remoteIn, applied,
                   offers>>

\* The transport reads StreamOptions.Stdin (stdinReader) and sends it on.
TransportReadStdin ==
    /\ stream = "running"
    /\ stdinBuf # <<>>
    /\ remoteIn' = Append(remoteIn, stdinBuf[1])
    /\ stdinBuf' = <<>>
    /\ UNCHANGED <<mgrVars, quota, resizing, canceled, wsRace, stdinWritten, sizeChanClosed,
                   req, hpc, httpStatus, ws, peerOpen, sent, toServer, toClient, session,
                   sizeChan, done, stdinRClosed, stdinWClosed, stdoutBuf, stdoutWClosed, inpc,
                   outpc, outMsg, stream, streamErr, produced, applied, offers>>

\* The transport writes remote output to StreamOptions.Stdout (stdoutWriter); the
\* write waits for the outbound pump's Read.
TransportWriteStdout ==
    /\ stream = "running"
    /\ stdoutBuf = <<>>
    /\ ~stdoutWClosed
    /\ produced < quota.chunks
    /\ produced' = produced + 1
    /\ stdoutBuf' = <<produced + 1>>
    /\ UNCHANGED <<mgrVars, quota, resizing, canceled, wsRace, stdinWritten, sizeChanClosed,
                   req, hpc, httpStatus, ws, peerOpen, sent, toServer, toClient, session,
                   sizeChan, done, stdinBuf, stdinRClosed, stdinWClosed, stdoutWClosed, inpc,
                   outpc, outMsg, stream, streamErr, remoteIn, applied, offers>>

\* What Next returns for "no more sizes": the nil *TerminalSize.
NoMoreSizes == [Width |-> 0, Height |-> 0, id |-> -1]

QueueNextNoWait(ch, closed) ==
    IF ch # <<>> THEN [waits |-> FALSE, ret |-> Head(ch), ch |-> Tail(ch)]
    ELSE [waits |-> FALSE, ret |-> NoMoreSizes, ch |-> ch]

\* handlers_pods.go:551-557: terminalSizeQueue.Next on a channel with contents ch:
\* the receive waits while the channel is empty and open; it yields the oldest
\* value when there is one and the zero value with ok = false once the channel is
\* closed and empty.
QueueNext(ch, closed) ==
    IF ch # <<>> THEN [waits |-> FALSE, ret |-> Head(ch), ch |-> Tail(ch)]
    ELSE IF closed THEN [waits |-> FALSE, ret |-> NoMoreSizes, ch |-> ch]
    ELSE [waits |-> TRUE, ret |-> NoMoreSizes, ch |-> ch]

\* The transport's resize loop, started once the streams are connected, calls
\* Next and applies what it returns, until Next returns nil; it is not tied to
\* the return of StreamWithContext. Nothing in handlePodExecWS closes sizeChan.
TransportNext ==
    /\ resizing
    /\ stream \in {"running", "returned"}
    /\ IF applied = <<>> THEN TRUE ELSE applied[Len(applied)] # NoMoreSizes
    /\ LET r == QueueNext(sizeChan, sizeChanClosed) IN
       /\ ~r.waits
       /\ applied' = Append(applied, r.ret)
       /\ sizeChan' = r.ch
    /\ UNCHANGED <<mgrVars, quota, resizing, canceled, wsRace, stdinWritten, sizeChanClosed,
                   req, hpc, httpStatus, ws, peerOpen, sent, toServer, toClient, session, done,
                   stdinBuf, stdinRClosed, stdinWClosed, stdoutBuf, stdoutWClosed, inpc, outpc,
                   outMsg, stream, streamErr, produced, remoteIn, offers>>

\* handlers_pods.go:525-531: StreamWithContext returns: nil when the remote
\* process ends, an error when the stream fails, both only once its stdout copier
\* has no write pending; or the context's error as soon as the request is canceled.
TransportReturn(err) ==
    /\ stream \in {"dialing", "running"}
    /\ stream = "dialing" => err # ""
    /\ err = "context canceled" => canceled
    /\ err # "context canceled" => stdoutBuf = <<>>
    /\ stream' = "returned"
    /\ streamErr' = err
    /\ UNCHANGED <<mgrVars, quota, resizing, canceled, wsRace, stdinWritten, sizeChanClosed,
                   req, hpc, httpStatus, ws, peerOpen, sent, toServer, toClient, session,
                   sizeChan, done, stdinBuf, stdinRClosed, stdinWClosed, stdoutBuf,
                   stdoutWClosed, inpc, outpc, outMsg, produced, remoteIn, applied, offers>>

\* The context of the request is canceled while StreamWithContext is being called
\* with it (handlers_pods.go:525); the handler itself never looks at the context.
CancelRequest ==
    /\ quota.cancel
    /\ stream \in {"dialing", "running"}
    /\ ~canceled
    /\ canceled' = TRUE
    /\ UNCHANGED <<mgrVars, quota, resizing, wsRace, stdinWritten, sizeChanClosed, req, hpc,
                   httpStatus, ws, peerOpen, sent, toServer, toClient, session, sizeChan, done,
                   stdinBuf, stdinRClosed, stdinWClosed, stdoutBuf, stdoutWClosed, inpc, outpc,
                   outMsg, stream, streamErr, produced, remoteIn, applied, offers>>

\* ------------------------------------------------------------ termination
\* handlers_pods.go:533.
CloseDone ==
    /\ hpc = "stream"
    /\ stream = "returned"
    /\ done' = TRUE
    /\ hpc' = "t_stdin"
    /\ UNCHANGED <<mgrVars, quota, resizing, canceled, wsRace, stdinWritten, sizeChanClosed,
                   req, httpStatus, ws, peerOpen, sent, toServer, toClient, session, sizeChan,
                   stdinBuf, stdinRClosed, stdinWClosed, stdoutBuf, stdoutWClosed, inpc, outpc,
                   outMsg, stream, streamErr, produced, remoteIn, applied, offers>>

\* handlers_pods.go:534: a Write waiting on the pipe returns io.ErrClosedPipe.
CloseStdinReader ==
    /\ hpc = "t_stdin"
    /\ stdinRClosed' = TRUE
    /\ stdinBuf' = <<>>
    /\ hpc' = "t_stdout"
    /\ UNCHANGED <<mgrVars, quota, resizing, canceled, wsRace, stdinWritten, sizeChanClosed,
                   req, httpStatus, ws, peerOpen, sent, toServer, toClient, session, sizeChan,
                   done, stdinWClosed, stdoutBuf, stdoutWClosed, inpc, outpc, outMsg, stream,
                   streamErr, produced, remoteIn, applied, offers>>

\* handlers_pods.go:535.
CloseStdoutWriter ==
    /\ hpc = "t_stdout"
    /\ stdoutWClosed' = TRUE
    /\ stdoutBuf' = <<>>
    /\ hpc' = "t_final"
    /\ UNCHANGED <<mgrVars, quota, resizing, canceled, wsRace, stdinWritten, sizeChanClosed,
                   req, httpStatus, ws, peerOpen, sent, toServer, toClient, session, sizeChan,
                   done, stdinBuf, stdinRClosed, stdinWClosed, inpc, outpc, outMsg, stream,
                   streamErr, produced, remoteIn, applied, offers>>

\* handlers_pods.go:537-541: the handler enters conn.WriteJSON with the final frame.
FinalFrameBegin ==
    /\ hpc = "t_final"
    /\ hpc' = "t_writing"
    /\ wsRace' = (wsRace \/ outpc = "writing")
    /\ UNCHANGED <<mgrVars, quota, resizing, canceled, stdinWritten, sizeChanClosed, req,
                   httpStatus, ws, peerOpen, sent, toServer, toClient, session, sizeChan, done,
                   stdinBuf, stdinRClosed, stdinWClosed, stdoutBuf, stdoutWClosed, inpc, outpc,
                   outMsg, stream, streamErr, produced, remoteIn, applied, offers>>

\* handlers_pods.go:537-541: WriteJSON of the final frame returns. A panic in the
\* handler goroutine unwinds through the deferred conn.Close() (line 430) and is
\* recovered by net/http: the handler is over without wg.Wait().
FinalFrameEnd ==
    /\ hpc = "t_writing"
    /\ \E outcome \in WriteOutcomes :
         IF outcome = "panic"
         THEN /\ hpc' = "returned"
              /\ ws' = "closed"
              /\ UNCHANGED toClient
         ELSE /\ toClient' = Written(IF outcome = "ok"
                                     THEN OutputFrame("final", 0,
                                              IF streamErr # ""
                                              THEN "Session ended: " \o streamErr
                                              ELSE "Session ended.")
                                     ELSE OutputFrame("garbled", 0, ""))
              /\ hpc' = "t_wait"
              /\ UNCHANGED ws
    /\ wsRace' = (wsRace /\ outpc = "writing")
    /\ UNCHANGED <<mgrVars, quota, resizing, canceled, stdinWritten, sizeChanClosed, req,
                   httpStatus, peerOpen, sent, toServer, session, sizeChan, done, stdinBuf,
                   stdinRClosed, stdinWClosed, stdoutBuf, stdoutWClosed, inpc, outpc, outMsg,
                   stream, streamErr, produced, remoteIn, applied, offers>>

\* handlers_pods.go:543 and 430: wg.Wait() returns, then the deferred conn.Close().
Wait ==
    /\ hpc = "t_wait"
    /\ inpc = "exited"
    /\ outpc = "exited"
    /\ ws' = "closed"
    /\ hpc' = "returned"
    /\ UNCHANGED <<mgrVars, quota, resizing, canceled, wsRace, stdinWritten, sizeChanClosed,
                   req, httpStatus, peerOpen, sent, toServer, toClient, session, sizeChan,
                   done, stdinBuf, stdinRClosed, stdinWClosed, stdoutBuf, stdoutWClosed, inpc,
                   outpc, outMsg, stream, streamErr, produced, remoteIn, applied, offers>>

\* ------------------------------------------------------------ the browser
ClientSend(frame) ==
    /\ ws = "open"
    /\ peerOpen
    /\ sent < quota.frames
    /\ sent' = sent + 1
    /\ toServer' = Append(toServer, frame)
    /\ UNCHANGED <<mgrVars, quota, resizing, canceled, wsRace, stdinWritten, sizeChanClosed,
                   req, hpc, httpStatus, ws, peerOpen, toClient, session, sizeChan, done,
                   stdinBuf, stdinRClosed, stdinWClosed, stdoutBuf, stdoutWClosed, inpc, outpc,
                   outMsg, stream, streamErr, produced, remoteIn, applied, offers>>

ClientClose ==
    /\ ws = "open"
    /\ peerOpen
    /\ peerOpen' = FALSE
    /\ UNCHANGED <<mgrVars, quota, resizing, canceled, wsRace, stdinWritten, sizeChanClosed,
                   req, hpc, httpStatus, ws, sent, toServer, toClient, session, sizeChan, done,
                   stdinBuf, stdinRClosed, stdinWClosed, stdoutBuf, stdoutWClosed, inpc, outpc,
                   outMsg, stream, streamErr, produced, remoteIn, applied, offers>>

\* No exec request at all (the Manager's specification), or one just arrived.
ExecVarsAt(start, r, q) ==
    /\ quota = q
    /\ req = r
    /\ hpc = start
    /\ httpStatus = 0
    /\ ws = "none"
    /\ peerOpen = FALSE
    /\ sent = 0
    /\ toServer = <<>>
    /\ toClient = <<>>
    /\ session = [client |-> NilClient, namespace |-> "", pod |-> "", container |-> ""]
    /\ sizeChan = <<>>
    /\ done = FALSE
    /\ stdinBuf = <<>>
    /\ stdinRClosed = FALSE
    /\ stdinWClosed = FALSE
    /\ stdoutBuf = <<>>
    /\ stdoutWClosed = FALSE
    /\ inpc = "none"
    /\ outpc = "none"
    /\ outMsg = 0
    /\ stream = "none"
    /\ streamErr = ""
    /\ produced = 0
    /\ remoteIn = <<>>
    /\ applied = <<>>
    /\ offers = <<>>
    /\ wsRace = FALSE
    /\ stdinWritten = <<>>
    /\ sizeChanClosed = FALSE
    /\ canceled = FALSE
    /\ resizing = FALSE

\* ------------------------------------------------------------ specification
Init ==
    /\ env \in Environments
    /\ boot = "boot"
    /\ isLocal = FALSE
    /\ clientset = NilClient
    /\ namespace = ""
    /\ rawConfig = [Contexts |-> NoContexts, CurrentContext |-> ""]
    /\ mu = 0
    /\ pc = [p \in Procs |-> "idle"]
    /\ loc = [p \in Procs |-> Blank]
    /\ ExecVarsAt("none", [path |-> <<>>, container |-> "", websocket |-> FALSE],
                  [frames |-> 0, chunks |-> 0, cancel |-> FALSE])

Next ==
    \/ NewManager
    \/ \E p \in Procs : HandlerClient(p)
    \/ \E p \in Procs : HandlerNamespace(p)
    \/ \E p \in Procs : Contexts(p)
    \/ \E p \in Procs : \E ns \in NamespaceInputs : HandleSwitchNamespace(p, ns)
    \/ \E p \in Procs : SetNamespace(p)
    \/ \E p \in Procs : \E ctx \in ContextInputs : HandleSwitchContext(p, ctx)
    \/ \E p \in Procs : SwitchEnter(p)
    \/ \E p \in Procs : SwitchBuild(p)
    \/ \E p \in Procs : SwitchClient(p)
    \/ \E p \in Procs : SwitchNamespace(p)
    \/ \E p \in Procs : Unlock(p)
    \/ \E p \in Procs : Return(p)

vars == <<mgrVars, execVars>>

Spec == Init /\ [][Next]_vars

\* One exec request against a Manager that started in local mode on context dev.
ExecInit ==
    /\ env = [inCluster |-> FALSE, saFile |-> Unreadable, podNamespace |-> "",
              kubeconfig |-> TRUE, currentContext |-> "dev"]
    /\ boot = "running"
    /\ isLocal = TRUE
    /\ clientset = "dev"
    /\ namespace = "team-a"
    /\ rawConfig = [Contexts |-> KubeContexts, CurrentContext |-> "dev"]
    /\ mu = 0
    /\ pc = [p \in Procs |-> "idle"]
    /\ loc = [p \in Procs |-> Blank]
    /\ \E r \in Requests, q \in Scenarios : ExecVarsAt("start", r, q)

ExecNext ==
    \/ HandleExecStart
    \/ Upgrade
    \/ Setup
    \/ SetupRequest
    \/ Spawn
    \/ InSelect
    \/ InRead
    \/ InReadError
    \/ InWriteReturn
    \/ OutRead
    \/ OutReadEOF
    \/ OutWriteBegin
    \/ OutWriteEnd
    \/ TransportConnect
    \/ TransportReadStdin
    \/ TransportWriteStdout
    \/ TransportNext
    \/ \E err \in {"", "stream error", "context canceled"} : TransportReturn(err)
    \/ CancelRequest
    \/ CloseDone
    \/ CloseStdinReader
    \/ CloseStdoutWriter
    \/ FinalFrameBegin
    \/ FinalFrameEnd
    \/ Wait
    \/ \E f \in ClientFrames(sent + 1) : ClientSend(f)
    \/ ClientClose

ExecSpec == ExecInit /\ [][ExecNext]_vars

\* The sessions followed to their end under fairness: the same requests, with
\* less traffic.
LiveScenarios ==
    {[frames |-> MaxLiveFrames, chunks |-> 0, cancel |-> FALSE],
     [frames |-> 1, chunks |-> MaxLiveChunks, cancel |-> FALSE],
     [frames |-> 1, chunks |-> 0, cancel |-> TRUE]}

ExecLiveInit ==
    /\ env = [inCluster |-> FALSE, saFile |-> Unreadable, podNamespace |-> "",
              kubeconfig |-> TRUE, currentContext |-> "dev"]
    /\ boot = "running"
    /\ isLocal = TRUE
    /\ clientset = "dev"
    /\ namespace = "team-a"
    /\ rawConfig = [Contexts |-> KubeContexts, CurrentContext |-> "dev"]
    /\ mu = 0
    /\ pc = [p \in Procs |-> "idle"]
    /\ loc = [p \in Procs |-> Blank]
    /\ \E r \in Requests, q \in LiveScenarios : ExecVarsAt("start", r, q)

\* The steps of each goroutine of a session. The Go scheduler runs every goroutine
\* that can take a step; the remote process and the browser owe nothing.
HandlerStep ==
    \/ HandleExecStart \/ Upgrade \/ Setup \/ SetupRequest \/ Spawn \/ CloseDone
    \/ CloseStdinReader \/ CloseStdoutWriter \/ FinalFrameBegin \/ FinalFrameEnd \/ Wait

InboundStep == InSelect \/ InRead \/ InReadError \/ InWriteReturn

OutboundStep == OutRead \/ OutReadEOF \/ OutWriteBegin \/ OutWriteEnd

TransportStep ==
    \/ TransportConnect \/ TransportReadStdin \/ TransportNext
    \/ TransportReturn("context canceled")

ExecFairSpec ==
    /\ ExecLiveInit /\ [][ExecNext]_vars
    /\ WF_vars(HandlerStep)
    /\ WF_vars(InboundStep)
    /\ WF_vars(OutboundStep)
    /\ WF_vars(TransportStep)

\* ------------------------------------- a session while the operator switches
\* One exec session of the local-mode server whose browser only listens, with
\* requests to switch the context and the namespace served by other goroutines
\* while the session is opened and runs.
SessionScenario == [frames |-> 0, chunks |-> 1, cancel |-> FALSE]

\* The contexts asked for: one that can be built and one that cannot.
SessionContexts == {"prod", "stale"}

SessionInit ==
    /\ env = [inCluster |-> FALSE, saFile |-> Unreadable, podNamespace |-> "",
              kubeconfig |-> TRUE, currentContext |-> "dev"]
    /\ boot = "running"
    /\ isLocal = TRUE
    /\ clientset = "dev"
    /\ namespace = "team-a"
    /\ rawConfig = [Contexts |-> KubeContexts, CurrentContext |-> "dev"]
    /\ mu = 0
    /\ pc = [p \in Procs |-> "idle"]
    /\ loc = [p \in Procs |-> Blank]
    /\ \E r \in Requests : ExecVarsAt("start", r, SessionScenario)

\* The goroutines that serve the switch requests.
Operators == 1..MaxOperators

\* The session is being opened or its stream is up (the handler is between its
\* first call into the Manager and the return of StreamWithContext) and no switch
\* has changed the Manager yet.
SessionOpen ==
    /\ hpc \in {"setup", "request", "spawn", "stream"} /\ stream # "returned"
    /\ clientset = "dev" /\ namespace = "team-a" /\ rawConfig.CurrentContext = "dev"

\* The switch requests followed are the first ones to arrive while the session
\* is open.
OperatorStep ==
    \/ \E p \in Operators : SessionOpen /\ HandleSwitchNamespace(p, "kube-system")
    \/ \E p \in Operators : SetNamespace(p)
    \/ \E p \in Operators : \E ctx \in SessionContexts :
           SessionOpen /\ HandleSwitchContext(p, ctx)
    \/ \E p \in Operators : SwitchEnter(p)
    \/ \E p \in Operators : SwitchBuild(p)
    \/ \E p \in Operators : SwitchClient(p)
    \/ \E p \in Operators : SwitchNamespace(p)
    \/ \E p \in Operators : Unlock(p)

\* The steps of a session whose browser sends nothing.
ListeningStep ==
    \/ HandleExecStart
    \/ Upgrade
    \/ Setup
    \/ SetupRequest
    \/ Spawn
    \/ InSelect
    \/ InReadError
    \/ OutRead
    \/ OutReadEOF
    \/ OutWriteBegin
    \/ OutWriteEnd
    \/ TransportConnect
    \/ TransportWriteStdout
    \/ TransportNext
    \/ \E err \in {"", "stream error"} : TransportReturn(err)
    \/ CloseDone
    \/ CloseStdinReader
    \/ CloseStdoutWriter
    \/ FinalFrameBegin
    \/ FinalFrameEnd
    \/ Wait
    \/ ClientClose

SessionNext == ListeningStep \/ OperatorStep

SessionSpec == SessionInit /\ [][SessionNext]_vars

\* --------------------------------------------------- the size queue on its own
\* terminalSizeQueue over a channel of capacity 1 that holds the initial size, with
\* a sender that offers any sizes the way the inbound pump does, a transport that
\* calls Next, and an owner that may close the channel.
QueueInit ==
    /\ env = [inCluster |-> FALSE, saFile |-> Unreadable, podNamespace |-> "",
              kubeconfig |-> TRUE, currentContext |-> "dev"]
    /\ boot = "running"
    /\ isLocal = TRUE
    /\ clientset = "dev"
    /\ namespace = "team-a"
    /\ rawConfig = [Contexts |-> KubeContexts, CurrentContext |-> "dev"]
    /\ mu = 0
    /\ pc = [p \in Procs |-> "idle"]
    /\ loc = [p \in Procs |-> Blank]
    /\ quota = [frames |-> 0, chunks |-> 0, cancel |-> FALSE]
    /\ req = [path |-> <<"", "pods", "web-1", "exec", "ws">>, container |-> "app",
              websocket |-> TRUE]
    /\ hpc = "stream"
    /\ httpStatus = 101
    /\ ws = "open"
    /\ peerOpen = TRUE
    /\ sent = 0
    /\ toServer = <<>>
    /\ toClient = <<>>
    /\ session = [client |-> "dev", namespace |-> "team-a", pod |-> "web-1",
                  container |-> "app"]
    /\ sizeChan = <<InitialSize>>
    /\ done = FALSE
    /\ stdinBuf = <<>>
    /\ stdinRClosed = FALSE
    /\ stdinWClosed = FALSE
    /\ stdoutBuf = <<>>
    /\ stdoutWClosed = FALSE
    /\ inpc = "read"
    /\ outpc = "read"
    /\ outMsg = 0
    /\ stream = "running"
    /\ streamErr = ""
    /\ produced = 0
    /\ remoteIn = <<>>
    /\ applied = <<>>
    /\ offers = <<>>
    /\ wsRace = FALSE
    /\ stdinWritten = <<>>
    /\ sizeChanClosed = FALSE
    /\ canceled = FALSE
    /\ resizing = TRUE

\* handlers_pods.go:495-499 applied to any size: the non-blocking send.
QueueOffer(cols, rows) ==
    /\ ~sizeChanClosed
    /\ Len(offers) < MaxSizes
    /\ LET id == Len(offers) + 1 IN
       /\ sizeChan' = OfferSize(sizeChan, [Width |-> cols, Height |-> rows, id |-> id])
       /\ offers' = Append(offers, [frame |-> [ResizeFrame(id) EXCEPT !.cols = cols,
                                                                     !.rows = rows],
                                    cb |-> Len(applied)])
    /\ UNCHANGED <<mgrVars, quota, resizing, canceled, wsRace, stdinWritten, sizeChanClosed,
                   req, hpc, httpStatus, ws, peerOpen, sent, toServer, toClient, session, done,
                   stdinBuf, stdinRClosed, stdinWClosed, stdoutBuf, stdoutWClosed, inpc, outpc,
                   outMsg, stream, streamErr, produced, remoteIn, applied>>

\* close(sizeChan), the event Next's `!ok` branch (handlers_pods.go:553-555) is for.
QueueClose ==
    /\ ~sizeChanClosed
    /\ sizeChanClosed' = TRUE
    /\ UNCHANGED <<mgrVars, quota, resizing, canceled, wsRace, stdinWritten, req, hpc,
                   httpStatus, ws, peerOpen, sent, toServer, toClient, session, sizeChan, done,
                   stdinBuf, stdinRClosed, stdinWClosed, stdoutBuf, stdoutWClosed, inpc, outpc,
                   outMsg, stream, streamErr, produced, remoteIn, applied, offers>>

QueueSteps ==
    \/ \E cols \in {0, 80, 132}, rows \in {0, 24, 43} : QueueOffer(cols, rows)
    \/ QueueClose
    \/ TransportNext

NextSpec == QueueInit /\ [][QueueSteps]_vars

\* -------------------------------------------------------------- properties
\* The session readers can see: the one in place when the lock was last free.
Committed == IF mu = 0 THEN Session ELSE loc[mu].pre

\* What SwitchContext(name) and SetNamespace(ns) do when run alone from session s.
SwitchedTo(s, name) ==
    [clientset |-> name,
     namespace |-> IF KubeContexts[name].ns = "" THEN "default" ELSE KubeContexts[name].ns,
     rawConfig |-> [s.rawConfig EXCEPT !.CurrentContext = name]]

NamespaceSetTo(s, ns) == [s EXCEPT !.namespace = ns]

ReadStep(p) ==
    \/ pc[p] = "idle" /\ pc'[p] \in {"h_ns", "c_done"}
    \/ pc[p] = "h_ns" /\ pc'[p] = "idle"

\* C1: a handler that calls Client() and then Namespace() gets a pair the manager
\* held at one of the two reads: the client it holds is still the active one when
\* it reads the namespace, or the namespace has not changed since it read the client.
C1_PairConsistent ==
    [][\A p \in Procs :
          (pc[p] = "h_ns" /\ pc'[p] = "idle")
              => (loc[p].rc = clientset \/ loc[p].nsAtClient = namespace)]_vars

\* C2: SwitchContext(name) with an unknown name, or outside local mode, returns an
\* error with the client and the namespace as they were when it was called, and
\* never gets as far as building a client.
C2_UnknownSwitchRejected ==
    \A p \in Procs :
        (pc[p] \in {"sw_build", "sw_client", "sw_ns", "sw_ret"}
            /\ (~isLocal \/ loc[p].arg \notin DOMAIN rawConfig.Contexts))
        => /\ pc[p] = "sw_ret"
           /\ loc[p].err # ""
           /\ clientset = loc[p].pre.clientset
           /\ namespace = loc[p].pre.namespace

C2_Witness ==
    \E p \in Procs :
        /\ pc[p] = "sw_ret" /\ isLocal /\ loc[p].arg = "ghost" /\ loc[p].err # ""
        /\ namespace = "kube-system"

\* C3: a SwitchContext that returns an error leaves client, namespace and the
\* current-context name as they were when it was called.
C3_FailedSwitchUnchanged ==
    \A p \in Procs :
        (pc[p] = "sw_ret" /\ loc[p].err # "")
        => /\ clientset = loc[p].pre.clientset
           /\ namespace = loc[p].pre.namespace
           /\ rawConfig.CurrentContext = loc[p].pre.rawConfig.CurrentContext

\* C4: every read of Client(), Namespace() or Contexts() sees the committed session,
\* never one a writer is part-way through replacing; and each SwitchContext that
\* succeeds and each SetNamespace ends with exactly the session that running it
\* alone from the session it started with produces.
C4_AtomicSwap ==
    /\ [](\A p \in Procs :
            /\ (pc[p] = "sw_ret" /\ loc[p].err = "")
                   => Session = SwitchedTo(loc[p].pre, loc[p].arg)
            /\ pc[p] = "sn_ret" => Session = NamespaceSetTo(loc[p].pre, loc[p].arg))
    /\ [][\A p \in Procs : ReadStep(p) => Session = Committed]_vars

C4_Witness ==
    \E p, q \in Procs :
        /\ pc[p] = "sw_ret" /\ loc[p].err = "" /\ loc[p].pre.clientset # clientset
        /\ pc[q] \in {"sn_lock", "sw_lock", "h_ns"}

\* C24: when SwitchContext(name) has succeeded, the namespace is the one the
\* kubeconfig gives for context name, or "default" when it gives none, whatever
\* namespace was in force before the call.
C24_SwitchNamespace ==
    \A p \in Procs :
        (pc[p] = "sw_ret" /\ loc[p].err = "")
        => /\ loc[p].arg \in DOMAIN KubeContexts
           /\ namespace = IF KubeContexts[loc[p].arg].ns = "" THEN "default"
                          ELSE KubeContexts[loc[p].arg].ns

C24_Witness ==
    \E p \in Procs :
        /\ pc[p] = "sw_ret" /\ loc[p].err = "" /\ loc[p].arg = "prod"
        /\ loc[p].pre.namespace = "kube-system"
        /\ namespace = "default"

\* C5: once NewManager has succeeded, Namespace() never returns "".
C5_NamespaceNonEmpty ==
    (boot = "running" /\ mu = 0) => namespace # ""

\* C6: SetNamespace(ns) makes ns the namespace and leaves the client, the known
\* contexts and the current-context name as they were.
C6_SetNamespaceFrame ==
    \A p \in Procs :
        pc[p] = "sn_ret"
        => /\ namespace = loc[p].arg
           /\ clientset = loc[p].pre.clientset
           /\ rawConfig = loc[p].pre.rawConfig

C6_Witness ==
    \E p \in Procs :
        /\ pc[p] = "sn_ret" /\ isLocal
        /\ namespace = "kube-system" /\ loc[p].pre.namespace # "kube-system"

\* C7: in local mode Contexts() returns the known context names once each in
\* ascending order and the name of the active context (the one the active client
\* was built for, i.e. the last SwitchContext that succeeded); in in-cluster mode
\* it returns an empty list and an empty name.
C7_ContextsResult ==
    \A p \in Procs :
        pc[p] = "c_done"
        => IF isLocal
           THEN /\ loc[p].ret.list = <<"dev", "prod", "stale">>
                /\ loc[p].ret.cur = loc[p].ret.active
           ELSE loc[p].ret.list = <<>> /\ loc[p].ret.cur = ""

\* C8: NewManager leaves the preferred namespace when one is given; otherwise, in
\* in-cluster mode, the content of the service-account namespace file or "default"
\* when it cannot be read, and in local mode the current context's namespace or
\* "default" when that is empty.
C8_InitialNamespace ==
    [][(boot = "boot" /\ boot' = "running")
          => namespace' =
               IF env.podNamespace # "" THEN env.podNamespace
               ELSE IF env.inCluster
                    THEN (IF env.saFile = Unreadable THEN "default" ELSE env.saFile)
                    ELSE IF KubeContexts[env.currentContext].ns = ""
                         THEN "default"
                         ELSE KubeContexts[env.currentContext].ns]_vars

C8_Witness ==
    /\ boot = "running" /\ ~isLocal /\ env.podNamespace = "ops" /\ env.saFile = "sa-ns"
    /\ namespace = "ops"

\* C9: a request with an empty container name is answered 400 and the handler
\* returns: the socket is never upgraded, no pump goroutine is started and
\* StreamWithContext is never called.
C9_EmptyContainerRejected ==
    req.container = ""
    => /\ ws = "none" /\ inpc = "none" /\ outpc = "none" /\ stream = "none"
       /\ toClient = <<>>
       /\ hpc # "start" => (hpc = "returned" /\ httpStatus = 400)

C9_Witness ==
    req.container = "" /\ req.websocket /\ hpc = "returned" /\ httpStatus = 400

\* The i-th resize frame the inbound pump handled is the first since the transport
\* last took a size from the queue (or the first of the session).
FirstSince(i) == i = 1 \/ offers[i - 1].cb < offers[i].cb

\* The next size the transport takes after the i-th resize frame was handled is
\* that frame's size.
Delivered(i) ==
    LET o == offers[i]
        size == [Width |-> o.frame.cols, Height |-> o.frame.rows, id |-> o.frame.id]
    IN  IF Len(applied) > o.cb THEN applied[o.cb + 1] = size ELSE sizeChan = <<size>>

\* The transport has not seen and will not see the i-th resize frame.
Discarded(i) ==
    /\ \A k \in 1..Len(applied) : applied[k].id # offers[i].frame.id
    /\ \A k \in 1..Len(sizeChan) : sizeChan[k].id # offers[i].frame.id

\* C10: of two resize frames R1, R2 handled with no size taken by the
\* transport in between, R1 being the first since the transport last took one, the
\* transport gets R1 and never R2; a frame R3 handled after R1 was taken is
\* delivered (it is again the first since a size was taken).
C10_ResizeOverflow ==
    \A i \in 1..Len(offers) :
        FirstSince(i)
        => /\ Delivered(i)
           /\ (i < Len(offers) /\ offers[i + 1].cb = offers[i].cb) => Discarded(i + 1)

\* What holds of resize overflow: the same, for frames handled after the transport has taken the
\* initial 120x30 size; a resize frame handled while the initial size is still in
\* the queue is discarded.
C10_ResizeOverflowAfterInitial ==
    \A i \in 1..Len(offers) :
        /\ (FirstSince(i) /\ offers[i].cb >= 1)
           => /\ Delivered(i)
              /\ (i < Len(offers) /\ offers[i + 1].cb = offers[i].cb) => Discarded(i + 1)
        /\ offers[i].cb = 0 => Discarded(i)

C10_Witness ==
    /\ Len(offers) = 3 /\ Len(applied) = 3
    /\ offers[1].cb = 1 /\ offers[2].cb = 1 /\ offers[3].cb = 2
    /\ applied[1] = InitialSize
    /\ applied[2].id = offers[1].frame.id
    /\ applied[3].id = offers[3].frame.id

\* The payloads of the frames the outbound pump has written to the socket, in order.
PumpPayloads ==
    LET fs == SelectSeq(toClient, LAMBDA f : f.kind \in {"chunk", "garbled"})
    IN  [i \in 1..Len(fs) |-> fs[i].data]

\* The chunk the outbound pump has read and not yet written.
PumpHolds == IF outpc \in {"write", "writing"} THEN <<outMsg>> ELSE <<>>

\* C11: the frames the outbound pump writes carry the chunks of the remote output
\* in the order the remote process wrote them (its k-th frame carries the k-th
\* chunk), and while the socket is open every chunk read from the pipe is either
\* written or about to be.
C11_OutputOrdering ==
    /\ \A i \in 1..Len(PumpPayloads) : PumpPayloads[i] = i
    /\ (ws = "open" /\ peerOpen /\ ~stdoutWClosed)
       => Len(PumpPayloads) + Len(PumpHolds) + Len(stdoutBuf) = produced

\* C12: what the remote process receives on its stdin is the data of the input
\* frames in the order the inbound pump got them: always a prefix of what the pump
\* wrote, and all of it (received or being handed over) until the handler closes
\* the pipe; the pump writes input data in the order of the frames.
C12_InputOrdering ==
    /\ Len(remoteIn) <= Len(stdinWritten)
    /\ \A i \in 1..Len(remoteIn) : remoteIn[i] = stdinWritten[i]
    /\ ~stdinRClosed => remoteIn \o stdinBuf = stdinWritten
    /\ \A i, j \in 1..Len(stdinWritten) : i < j => stdinWritten[i] < stdinWritten[j]
    /\ \A i \in 1..Len(stdinWritten) : stdinWritten[i] \in 1..(sent - Len(toServer))

C12_Witness ==
    /\ remoteIn = <<1, 3>>
    /\ Len(offers) = 1 /\ offers[1].frame.id = 2

\* A frame the inbound pump does not act on: undecodable JSON, or a type that is
\* neither "input" nor "resize".
Malformed(f) == ~f.valid \/ f.type \notin {"input", "resize"}

\* C13: when the inbound pump handles a malformed frame nothing else changes:
\* nothing is written to the remote input, the size channel keeps its content, no
\* frame goes to the browser, done stays unset, the socket, the stream, the handler
\* and the outbound pump stay as they are; the pump goes on to its next read.
C13_MalformedIgnored ==
    [][(inpc = "read" /\ toServer # <<>> /\ toServer' = Tail(toServer)
          /\ Malformed(Head(toServer)))
       => /\ inpc' = "select"
          /\ UNCHANGED <<stdinBuf, stdinWritten, remoteIn, stdinRClosed, stdinWClosed,
                         sizeChan, offers, applied, toClient, done, ws, stream, streamErr,
                         hpc, outpc, stdoutBuf>>]_vars

C13_Witness ==
    /\ remoteIn = <<3>> /\ stdinWritten = <<3>> /\ offers = <<>>
    /\ inpc \in {"select", "read"} /\ ws = "open" /\ stream = "running"

\* The handler is over: it returned, or the process ended.
HandlerOver == hpc \in {"returned", "crashed"}

\* C14: once the browser has closed the socket of a running session, the stream
\* returns, both pumps exit and the handler returns.
C14_ClientCloseTerminates ==
    (ws = "open" /\ ~peerOpen /\ stream \in {"dialing", "running"})
        ~> (HandlerOver /\ stream \in {"returned", "crashed"}
              /\ inpc \in {"exited", "crashed"} /\ outpc \in {"exited", "crashed"})

\* C15: once StreamWithContext has returned and done is closed, both pumps exit
\* and the handler returns, whatever the browser does.
C15_TerminationCompletes ==
    done ~> (HandlerOver /\ inpc \in {"exited", "crashed"} /\ outpc \in {"exited", "crashed"})

\* The session is live: the browser holds the socket and the stream has not ended.
Live == ws = "open" /\ peerOpen /\ stream \in {"dialing", "running"}

\* C19: while the session stays live, every input frame the browser has sent
\* reaches the stdin of the remote process, and every chunk the remote process
\* writes (its echo among them) reaches the browser in an output frame.
C19_EchoDelivered ==
    /\ \A i \in 1..MaxLiveFrames :
         (\E k \in 1..Len(toServer) : toServer[k] = InputFrame(i))
             ~> ((\E k \in 1..Len(remoteIn) : remoteIn[k] = i) \/ ~Live)
    /\ \A c \in 1..MaxLiveChunks :
         (stdoutBuf = <<c>>)
             ~> ((\E k \in 1..Len(PumpPayloads) : PumpPayloads[k] = c) \/ ~Live)

C19_Witness ==
    Live /\ remoteIn = <<1>> /\ PumpPayloads = <<1>> /\ sent = 1 /\ toServer = <<>>

\* The final frame has reached the socket.
FinalSent == \E k \in 1..Len(toClient) : toClient[k].kind = "final"

\* C16: the termination steps happen in order: done is closed only after the
\* stream has returned, the pipe ends are closed only after done, the final frame
\* is written only after both pipe ends are closed, the handler waits for the
\* pumps only after the final frame, and conn is closed only after both pumps
\* have finished.
C16_TerminationOrder ==
    /\ done => stream \in {"returned", "crashed"}
    /\ stdinRClosed => done
    /\ stdoutWClosed => stdinRClosed
    /\ (FinalSent \/ hpc = "t_writing") => stdoutWClosed
    /\ (hpc = "t_wait" /\ ws = "open" /\ peerOpen)
       => \E k \in 1..Len(toClient) : toClient[k].kind \in {"final", "garbled"}
    /\ (ws = "closed" /\ inpc # "none")
       => (inpc \in {"exited", "crashed"} /\ outpc \in {"exited", "crashed"})

\* The final frames that have reached the socket.
Finals == SelectSeq(toClient, LAMBDA f : f.kind = "final")

\* C17: a session whose StreamWithContext has returned sends one final frame and no
\* more: "Session ended: <error>" when the stream returned an error, "Session
\* ended." otherwise; the HTTP exchange itself stays the completed upgrade.
C17_OneFinalFrame ==
    /\ Len(Finals) <= 1
    /\ \A k \in 1..Len(Finals) :
         Finals[k].text = IF streamErr # "" THEN "Session ended: " \o streamErr
                          ELSE "Session ended."
    /\ (done /\ hpc \in {"t_wait", "returned", "crashed"} /\ peerOpen) => Len(Finals) = 1
    /\ ws # "none" => httpStatus = 101

\* C20: Next returns the oldest pending size and takes it out of the channel; with
\* the channel empty and open it waits; it returns nil only when the channel is
\* closed and empty.
C20_NextSemantics ==
    /\ []((sizeChan = <<>> /\ ~sizeChanClosed) => ~ENABLED TransportNext)
    /\ [][applied' # applied
            => /\ Len(applied') = Len(applied) + 1
               /\ IF sizeChan # <<>>
                  THEN /\ applied'[Len(applied')] = Head(sizeChan)
                       /\ applied'[Len(applied')] # NoMoreSizes
                       /\ sizeChan' = <<>>
                  ELSE /\ sizeChanClosed
                       /\ applied'[Len(applied')] = NoMoreSizes
                       /\ sizeChan' = <<>>]_vars

C20_Witness ==
    /\ Len(applied) = 3
    /\ applied[1] = InitialSize
    /\ applied[2] = [Width |-> 132, Height |-> 43, id |-> 1]
    /\ applied[3] = NoMoreSizes
    /\ sizeChanClosed

\* C21: the first size Next hands to the transport is the initial 120x30; a size
\* from a resize frame only ever comes after it.
C21_InitialSizeFirst ==
    /\ applied # <<>> => applied[1] = InitialSize
    /\ \A k \in 1..Len(applied) : applied[k].id >= 1 => k > 1
    /\ InitialSize.Width = 120 /\ InitialSize.Height = 30

C21_Witness ==
    /\ Len(applied) = 2
    /\ applied[1] = InitialSize
    /\ applied[2] = [Width |-> 80, Height |-> 24, id |-> applied[2].id]
    /\ applied[2].id >= 1

\* C22: once the request's context is canceled during a session, StreamWithContext
\* returns and the termination sequence runs to its end: done closed, both pipe
\* ends closed, the final frame sent to a browser that is still there, both pumps
\* joined and the handler over.
C22_CancelTerminates ==
    canceled
        ~> (/\ stream \in {"returned", "crashed"}
            /\ done /\ stdinRClosed /\ stdoutWClosed
            /\ peerOpen => FinalSent
            /\ inpc \in {"exited", "crashed"} /\ outpc \in {"exited", "crashed"}
            /\ HandlerOver)

\* The part of C22 that holds: a canceled context makes StreamWithContext
\* return, and the handler then closes done and the pipes, writes the final frame
\* and reaches wg.Wait().
CancelReachesWait ==
    canceled
        ~> (/\ stream \in {"returned", "crashed"}
            /\ done /\ stdinRClosed /\ stdoutWClosed
            /\ hpc \in {"t_wait", "returned", "crashed"})

\* C23: a resize frame without rows or cols puts nothing into sizeChan and no size
\* made from it reaches the transport.
C23_PartialResizeIgnored ==
    \A i \in 1..Len(offers) :
        (offers[i].frame.cols = 0 \/ offers[i].frame.rows = 0) => Discarded(i)

\* C25: whenever the inbound pump has exited, the write side of the stdin pipe is
\* closed; and the pump exits only from its select with done closed, or from a
\* read on the socket that fails because the browser has gone or conn is closed.
C25_InboundExit ==
    /\ [](inpc = "exited" => stdinWClosed)
    /\ [][(inpc # "exited" /\ inpc' = "exited")
            => /\ stdinWClosed'
               /\ \/ inpc = "select" /\ done
                  \/ inpc = "read" /\ ((toServer = <<>> /\ ~peerOpen) \/ ws = "closed")]_vars

C25_Witness ==
    inpc = "exited" /\ stdinWClosed /\ ~done /\ stream = "running" /\ ~peerOpen

\* C26: sizeChan never holds more than one size; and the step of the inbound pump
\* that takes a resize frame off the socket always returns the pump to its select,
\* with the size dropped and sizeChan untouched when a size is already waiting.
C26_OneSlotNoBlock ==
    /\ [](Len(sizeChan) <= 1)
    /\ [][(inpc = "read" /\ toServer' # toServer /\ Len(toServer') < Len(toServer)
            /\ Head(toServer).valid /\ Head(toServer).type = "resize")
           => /\ inpc' = "select"
              /\ Len(sizeChan) = 1 => sizeChan' = sizeChan
              /\ Len(sizeChan) = 0
                    => sizeChan' = <<[Width |-> Head(toServer).cols,
                                      Height |-> Head(toServer).rows,
                                      id |-> Head(toServer).id]>>]_vars

C26_Witness ==
    /\ Len(offers) = 2
    /\ offers[1].frame.id = 1 /\ offers[2].frame.id = 2
    /\ sizeChan = <<InitialSize>>
    /\ inpc = "select"

\* C27: the outbound pump and the handler are never both inside a WriteJSON on
\* conn: the pump's write of an output frame and the handler's write of the final
\* frame do not overlap.
C27_SingleWriter ==
    ~(outpc = "writing" /\ hpc = "t_writing")

\* C28: once the final frame is on the socket no frame is written after it: the
\* frames sent to the browser grow only while none of them is the final frame.
C28_FinalFrameLast ==
    [][FinalSent => toClient' = toClient]_vars

\* The transport's resize loop has been told by Next that there are no more sizes.
ResizeLoopEnded ==
    IF applied = <<>> THEN FALSE ELSE applied[Len(applied)] = NoMoreSizes

\* C29: once the handler of a session has returned, the transport's resize loop
\* does not stay inside Next for ever: sizeChan gets closed and the loop receives
\* the "no more sizes" answer.
C29_NextReleased ==
    (hpc = "returned" /\ resizing) ~> (sizeChanClosed /\ ResizeLoopEnded)

\* The handler has built the exec request: the session has its target.
Bound == hpc \notin {"none", "start", "upgrade", "setup", "request"} /\ session.pod # ""

\* C30: a step of SwitchContext or SetNamespace (any step that changes the Manager)
\* taken while an exec session is bound changes nothing of the session: not its
\* target (client, namespace, pod, container), not its handler, pumps, stream or
\* socket, not the data in flight; and the target of a bound session is never
\* changed by any step.
C30_SessionUnaffected ==
    [][/\ (Bound /\ mgrVars' # mgrVars)
            => UNCHANGED <<session, hpc, inpc, outpc, stream, streamErr, done, ws, peerOpen,
                           stdinRClosed, stdinWClosed, stdoutWClosed, stdinBuf, stdoutBuf,
                           toServer, toClient, sizeChan, sizeChanClosed, canceled>>
       /\ Bound => session' = session]_vars

C30_Witness ==
    /\ Bound /\ stream = "running" /\ hpc = "stream"
    /\ session = [client |-> "dev", namespace |-> "team-a", pod |-> "web-1",
                  container |-> "app"]
    /\ clientset = "prod" /\ namespace = "default"
    /\ \E k \in 1..Len(toClient) : toClient[k].kind = "chunk"

====
